---- MODULE Spec2Model ----
(***************************************************************************)
(* sculpt/idealpy/astro/utils.py: _check_angle, azel2radec, jprecess and   *)
(* bprecess as a state machine.  One call is in progress at a time (the    *)
(* module keeps no state between calls); every statement that calls into   *)
(* ephem, datetime or astrolib.coords is one step, so that the order of    *)
(* those calls relative to the validation errors is visible.               *)
(*                                                                         *)
(* Python values are records [t |-> <type name>, v |-> <payload>].  The    *)
(* results of the external libraries are uninterpreted terms over their    *)
(* arguments; an external call that can reject its argument either returns *)
(* or raises, and the model takes both branches.                           *)
(***************************************************************************)
EXTENDS Integers, Sequences, FiniteSets, TLC

\* Longest RA / Dec sequence passed to jprecess / bprecess.
MaxLen == 2

(***************************** Python values *******************************)

Val(t, v) == [t |-> t, v |-> v]

NoVal == Val("unset", "")

\* Arguments tried for an angle parameter: an ephem.Angle, two strings, a
\* float, and three values whose type is none of those.
AngleInputs ==
    { Val("ephem.Angle", "0.7"), Val("str", "135:23"), Val("float", "0.5"),
      Val("int", "1"), Val("NoneType", "None"), Val("dict", "{}") }

\* Arguments tried for date; "omitted" is the call without a date argument.
DateInputs ==
    { Val("omitted", ""), Val("NoneType", "None"),
      Val("datetime.datetime", "2009-06-01T12:00"),
      Val("datetime.date", "2009-06-01"), Val("str", "2009-06-01") }

\* Values datetime.datetime.now() can return during a call.
Clock == { "now1", "now2" }

\* The float elements of an RA / Dec sequence.
Degs == { "10.0", "20.0" }

SeqsUpTo(S, n) == UNION { [1..k -> S] : k \in 0..n }

\* Arguments tried for ra and for dec: scalars, and list / tuple /
\* numpy.ndarray (one-dimensional) of floats.
CoordInputs ==
    { Val("float", <<d>>) : d \in Degs } \cup { Val("NoneType", <<"None">>) }
    \cup { Val(t, s) : t \in { "list", "tuple", "numpy.ndarray" },
                       s \in SeqsUpTo(Degs, MaxLen) }

\* Arguments tried for epoch; "omitted" is the call without an epoch.
EpochInputs ==
    { Val("omitted", "") }
    \cup { Val("str", s) : s \in { "1950.0", "1950.", "1950", "B1950",
                                   "2000.0", "2000.", "2000", "J2000",
                                   "1975.0" } }
    \cup { Val("float", "1950.0"), Val("float", "2000.0"), Val("int", "1950") }

(******************************* errors ************************************)

\* An exception: its class, the parameter it names (ArgumentError only), and
\* whether a raise statement of this module or an external library raised it.
Err(cls, param, site) == [cls |-> cls, param |-> param, site |-> site]

NoErr == Err("", "", "")

(****************************** _check_angle *******************************)

\* AcceptedAngle, had line 9 tested for a number instead of a float.
AcceptedAngle_Numbers(angle) ==
    \/ angle.t = "ephem.Angle"
    \/ angle.t = "str"
    \/ angle.t = "float"
    \/ angle.t = "int"

\* line 9: isinstance(angle, ephem.Angle) or type(angle) == str
\*         or type(angle) == float
AcceptedAngle(angle) ==
    \/ angle.t = "ephem.Angle"
    \/ angle.t = "str"
    \/ angle.t = "float"

\* line 10: the term ephem.degrees(angle).
Degrees(angle) == [t |-> "ephem.degrees", v |-> angle]

\* line 10: ephem.degrees parses a string and raises ValueError on one it
\* cannot parse; the other accepted types always convert.
DegreesOutcomes(angle) == IF angle.t = "str" THEN { "ok", "raise" } ELSE { "ok" }

\* line 12: the raise statement names IdealPyArgumentError, which the module
\* neither imports nor defines (line 4 imports SculptArgumentError), so
\* evaluating the name raises NameError before any exception is built.
CheckAngleError == Err("NameError", "", "validation")


\* lines 8-12: the outcome of _check_angle(angle), given what ephem.degrees
\* does with the argument.
CheckAngle(angle, outcome) ==
    IF AcceptedAngle(angle)
    THEN IF outcome = "ok"
         THEN [raised |-> FALSE, val |-> Degrees(angle), err |-> NoErr]
         ELSE [raised |-> TRUE, val |-> NoVal,
               err |-> Err("ValueError", "", "library")]
    ELSE [raised |-> TRUE, val |-> NoVal, err |-> CheckAngleError]

(******************************* azel2radec ********************************)

\* line 14: date=None.
BindDate(date) == IF date.t = "omitted" THEN Val("NoneType", "None") ELSE date

\* UsesCallerDate, had line 62 left out datetime.date.
UsesCallerDate_DatetimeOnly(date) ==
    /\ date.t # "NoneType"
    /\ date.t = "datetime.datetime"

\* line 62: date is not None and (isinstance(date, datetime.datetime)
\*          or isinstance(date, datetime.date))
UsesCallerDate(date) ==
    /\ date.t # "NoneType"
    /\ (date.t = "datetime.datetime" \/ date.t = "datetime.date")

\* AzelNext, had lines 62-66 (the date) stood before line 57.
AzelNext_DateFirst(p) ==
    CASE p = "observer"  -> "date"
      [] p = "date"      -> "setdate"
      [] p = "setdate"   -> "latitude"
      [] p = "latitude"  -> "longitude"
      [] p = "longitude" -> "setloc"
      [] p = "setloc"    -> "az"
      [] p = "az"        -> "el"
      [] p = "el"        -> "radec_of"
      [] OTHER           -> "done"

\* lines 56-67: the statement that follows each statement of azel2radec.
AzelNext(p) ==
    CASE p = "observer"  -> "latitude"
      [] p = "latitude"  -> "longitude"
      [] p = "longitude" -> "setloc"
      [] p = "setloc"    -> "az"
      [] p = "az"        -> "el"
      [] p = "el"        -> "date"
      [] p = "date"      -> "setdate"
      [] p = "setdate"   -> "radec_of"
      [] OTHER           -> "done"

\* lines 57, 58, 60, 61: the statements that call _check_angle; each is
\* named after the local it normalizes.
AngleStmts == { "latitude", "longitude", "az", "el" }

(**************************** jprecess, bprecess ***************************)

\* line 70: epoch='1950.0';  line 113: epoch='2000.0'.
BindEpoch(f, epoch) ==
    IF epoch.t = "omitted"
    THEN Val("str", IF f = "jprecess" THEN "1950.0" ELSE "2000.0")
    ELSE epoch

\* JEpoch, had line 93 left out '1950.'.
JEpoch_NoTrailingDot(epoch) ==
    IF epoch.t = "str" /\ epoch.v \in { "1950.0", "1950", "B1950" }
    THEN Val("float", "1950.0")
    ELSE epoch

\* lines 93-94: if epoch in ('1950.0', '1950.', '1950', 'B1950'): epoch = 1950.0
\* (a float or an int equals none of the four strings).
JEpoch(epoch) ==
    IF epoch.t = "str" /\ epoch.v \in { "1950.0", "1950.", "1950", "B1950" }
    THEN Val("float", "1950.0")
    ELSE epoch

\* lines 136-137: if epoch in ('2000.0', '2000.', '2000', 'J2000'): epoch = 2000.0
BEpoch(epoch) ==
    IF epoch.t = "str" /\ epoch.v \in { "2000.0", "2000.", "2000", "J2000" }
    THEN Val("float", "2000.0")
    ELSE epoch

\* lines 95, 97 (138, 140): type(x) in (ListType, TupleType, numpy.ndarray)
IsSeqType(x) == x.t \in { "list", "tuple", "numpy.ndarray" }

\* IsVector, had line 95 looked at dec as well.
IsVector_Either(ra, dec) == IsSeqType(ra) \/ IsSeqType(dec)

\* lines 95-96, 99-100 (138-139, 142-143): vect is decided by type(ra) alone.
IsVector(ra, dec) == IsSeqType(ra)

\* DecRejected, had line 97 left out the comparison of the lengths.
DecRejected_TypeOnly(ra, dec) == ~IsSeqType(dec)

\* line 97 (140): type(dec) not in (...) or len(ra) != len(dec)
DecRejected(ra, dec) == ~IsSeqType(dec) \/ Len(ra.v) # Len(dec.v)

\* line 98 (141): SculptArgumentError('dec', ...)
DecError == Err("SculptArgumentError", "dec", "validation")

\* LoopDone, had the loop stopped one element early.
LoopDone_Early(i, ra) == i >= Len(ra.v)

\* line 103 (146): enumerate(ra) is exhausted once i has passed the last
\* element (i counts from 1 here, from 0 in the code).
LoopDone(i, ra) == i > Len(ra.v)

\* line 104 (147): dec[i] raises TypeError on a value that has no
\* subscript, IndexError past the end.
SubscriptError(dec, i) ==
    IF ~IsSeqType(dec) THEN Err("TypeError", "", "runtime")
    ELSE IF i > Len(dec.v) THEN Err("IndexError", "", "runtime")
    ELSE NoErr

\* lines 103-104 (146-147): the i-th element of a sequence, a float.
Elem(x, i) == Val("float", <<x.v[i]>>)

\* PairAt, had line 104 indexed dec from its end.
PairAt_Crossed(ra, dec, i) == <<Elem(ra, i), Elem(dec, Len(dec.v) + 1 - i)>>

\* line 104 (147): the pair (r, dec[i]) of the i-th iteration.
PairAt(ra, dec, i) == <<Elem(ra, i), Elem(dec, i)>>

\* lines 104, 107 (147, 150): the term coords.Position(pair, equinox=epoch).
Position(pair, epoch) ==
    [t |-> "coords.Position", ra |-> pair[1], dec |-> pair[2], equinox |-> epoch]

\* lines 105, 108: pos.j2000();  lines 148, 151: pos.b1950().
Convert(f, pos) ==
    [t |-> IF f = "jprecess" THEN "j2000" ELSE "b1950", pos |-> pos]

\* line 105 (148): ret.append(...)
AppendRet(ret, x) == Append(ret, x)

\* coords.Position(...) and pos.j2000() / pos.b1950() either return or raise
\* (an out-of-range angle, an equinox the library cannot read).
LibOutcomes == { "ok", "raise" }

LibError == Err("ValueError", "", "library")


(******************************** state ************************************)

VARIABLES
    fn,     \* the function being called: "none" before the first call
    pc,     \* the statement about to run; "done" once the call has ended
    args,   \* the arguments of the call, as the caller passed them
    frame,  \* the locals of the call
    ext,    \* what the call has done to the external libraries so far
    out     \* how the call ended: returned value or raised exception

vars == <<fn, pc, args, frame, ext, out>>

NoArgs ==
    [angle |-> NoVal, az |-> NoVal, el |-> NoVal, latitude |-> NoVal,
     longitude |-> NoVal, date |-> NoVal, ra |-> NoVal, dec |-> NoVal,
     epoch |-> NoVal]

NoFrame ==
    [latitude |-> NoVal, longitude |-> NoVal, az |-> NoVal, el |-> NoVal,
     date |-> NoVal, epoch |-> NoVal, vect |-> FALSE, i |-> 0, ret |-> <<>>,
     pos |-> NoVal]

\* observer: ephem.Observer() has been called; lat, long, date: the
\* observer's attributes; degrees: the arguments ephem.degrees was called
\* with, in order; now: the values datetime.datetime.now() returned;
\* radec_of: the calls of obs.radec_of; positions: the coords.Position(...)
\* calls, in order; convs: the j2000() / b1950() calls, in order.
NoExt ==
    [observer |-> FALSE, lat |-> NoVal, long |-> NoVal, date |-> NoVal,
     degrees |-> <<>>, now |-> <<>>, radec_of |-> <<>>, positions |-> <<>>,
     convs |-> <<>>]

\* status: "none", "running", "returned" or "raised"; kind: what was
\* returned ("angle", "radec", "single", "list"); value: an angle or the
\* (RA, Dec) term; items: the list jprecess / bprecess returned (or its one
\* result); err: the exception; at: the statement that raised it.
NoOut ==
    [status |-> "none", kind |-> "", value |-> NoVal, items |-> <<>>,
     err |-> NoErr, at |-> ""]

Running == [NoOut EXCEPT !.status = "running"]

Returned(kind, value, items) ==
    [NoOut EXCEPT !.status = "returned", !.kind = kind, !.value = value,
                  !.items = items]

\* An exception that no handler of the module catches ends the call: the
\* module has no try statement.
Raised(err, at) == [NoOut EXCEPT !.status = "raised", !.err = err, !.at = at]

Idle == pc = "idle"

Init ==
    /\ fn = "none"
    /\ pc = "idle"
    /\ args = NoArgs
    /\ frame = NoFrame
    /\ ext = NoExt
    /\ out = NoOut

(************************* calls of _check_angle ***************************)

\* line 8: a caller invokes _check_angle(angle) directly.
Call_check_angle ==
    /\ Idle
    /\ \E angle \in AngleInputs :
        /\ fn' = "_check_angle"
        /\ pc' = "check"
        /\ args' = [NoArgs EXCEPT !.angle = angle]
        /\ frame' = NoFrame
        /\ ext' = NoExt
        /\ out' = Running

\* lines 9-12.
check_angle ==
    /\ fn = "_check_angle"
    /\ pc = "check"
    /\ \E o \in DegreesOutcomes(args.angle) :
        LET r == CheckAngle(args.angle, o) IN
        /\ ext' = IF AcceptedAngle(args.angle)
                  THEN [ext EXCEPT !.degrees = Append(@, args.angle)]
                  ELSE ext
        /\ out' = IF r.raised THEN Raised(r.err, "check")
                  ELSE Returned("angle", r.val, <<>>)
    /\ pc' = "done"
    /\ UNCHANGED <<fn, args, frame>>

(******************************* azel2radec ********************************)

\* line 14.
Call_azel2radec ==
    /\ Idle
    /\ \E az \in AngleInputs, el \in AngleInputs, latitude \in AngleInputs,
          longitude \in AngleInputs, date \in DateInputs :
        /\ args' = [NoArgs EXCEPT !.az = az, !.el = el, !.latitude = latitude,
                                  !.longitude = longitude, !.date = date]
        /\ frame' = [NoFrame EXCEPT !.az = az, !.el = el,
                                    !.latitude = latitude,
                                    !.longitude = longitude,
                                    !.date = BindDate(date)]
    /\ fn' = "azel2radec"
    /\ pc' = "observer"
    /\ ext' = NoExt
    /\ out' = Running

\* line 56: obs = ephem.Observer()
azel_observer ==
    /\ fn = "azel2radec"
    /\ pc = "observer"
    /\ ext' = [ext EXCEPT !.observer = TRUE]
    /\ pc' = AzelNext(pc)
    /\ UNCHANGED <<fn, args, frame, out>>

\* lines 57, 58, 60, 61: <local> = _check_angle(<local>)
azel_check_angle ==
    /\ fn = "azel2radec"
    /\ pc \in AngleStmts
    /\ \E o \in DegreesOutcomes(frame[pc]) :
        LET r == CheckAngle(frame[pc], o) IN
        /\ ext' = IF AcceptedAngle(frame[pc])
                  THEN [ext EXCEPT !.degrees = Append(@, frame[pc])]
                  ELSE ext
        /\ IF r.raised
           THEN /\ out' = Raised(r.err, pc)
                /\ pc' = "done"
                /\ frame' = frame
           ELSE /\ frame' = [frame EXCEPT ![pc] = r.val]
                /\ pc' = AzelNext(pc)
                /\ out' = out
    /\ UNCHANGED <<fn, args>>

\* line 59: obs.lat, obs.long = latitude, longitude
azel_setloc ==
    /\ fn = "azel2radec"
    /\ pc = "setloc"
    /\ ext' = [ext EXCEPT !.lat = frame.latitude, !.long = frame.longitude]
    /\ pc' = AzelNext(pc)
    /\ UNCHANGED <<fn, args, frame, out>>

\* lines 62-65: keep the caller's date, or read the clock.
azel_date ==
    /\ fn = "azel2radec"
    /\ pc = "date"
    /\ IF UsesCallerDate(frame.date)
       THEN UNCHANGED <<frame, ext>>
       ELSE \E n \in Clock :
               /\ frame' = [frame EXCEPT !.date = Val("datetime.datetime", n)]
               /\ ext' = [ext EXCEPT !.now = Append(@, n)]
    /\ pc' = AzelNext(pc)
    /\ UNCHANGED <<fn, args, out>>

\* line 66: obs.date = date
azel_setdate ==
    /\ fn = "azel2radec"
    /\ pc = "setdate"
    /\ ext' = [ext EXCEPT !.date = frame.date]
    /\ pc' = AzelNext(pc)
    /\ UNCHANGED <<fn, args, frame, out>>

\* line 67: return obs.radec_of(az=az, alt=el)
azel_radec_of ==
    /\ fn = "azel2radec"
    /\ pc = "radec_of"
    /\ LET call == [t |-> "radec_of", observer |-> ext.observer,
                    lat |-> ext.lat, long |-> ext.long, date |-> ext.date,
                    az |-> frame.az, alt |-> frame.el] IN
        /\ ext' = [ext EXCEPT !.radec_of = Append(@, call)]
        /\ out' = Returned("radec", call, <<>>)
    /\ pc' = AzelNext(pc)
    /\ UNCHANGED <<fn, args, frame>>


(**************************** jprecess, bprecess ***************************)

Precess == { "jprecess", "bprecess" }

\* lines 70, 113.
Call_precess ==
    /\ Idle
    /\ \E f \in Precess, ra \in CoordInputs, dec \in CoordInputs,
          epoch \in EpochInputs :
        /\ fn' = f
        /\ args' = [NoArgs EXCEPT !.ra = ra, !.dec = dec, !.epoch = epoch]
        /\ frame' = [NoFrame EXCEPT !.epoch = BindEpoch(f, epoch)]
    /\ pc' = "epoch"
    /\ ext' = NoExt
    /\ out' = Running

\* lines 93-94 of jprecess.
jprecess_epoch ==
    /\ fn = "jprecess"
    /\ pc = "epoch"
    /\ frame' = [frame EXCEPT !.epoch = JEpoch(@)]
    /\ pc' = "mode"
    /\ UNCHANGED <<fn, args, ext, out>>

\* lines 136-137 of bprecess.
bprecess_epoch ==
    /\ fn = "bprecess"
    /\ pc = "epoch"
    /\ frame' = [frame EXCEPT !.epoch = BEpoch(@)]
    /\ pc' = "mode"
    /\ UNCHANGED <<fn, args, ext, out>>

\* lines 95-102 (138-145): vect, the check of dec, and ret = [].
precess_mode ==
    /\ fn \in Precess
    /\ pc = "mode"
    /\ IF IsVector(args.ra, args.dec)
       THEN IF DecRejected(args.ra, args.dec)
            THEN /\ out' = Raised(DecError, "mode")
                 /\ pc' = "done"
                 /\ frame' = [frame EXCEPT !.vect = TRUE]
            ELSE /\ frame' = [frame EXCEPT !.vect = TRUE, !.i = 1, !.ret = <<>>]
                 /\ pc' = "loop"
                 /\ out' = out
       ELSE /\ frame' = [frame EXCEPT !.vect = FALSE]
            /\ pc' = "scalar"
            /\ out' = out
    /\ UNCHANGED <<fn, args, ext>>

\* lines 103-104 (146-147): the next r of enumerate(ra), dec[i], and
\* pos = coords.Position((r, dec[i]), equinox=epoch)
precess_loop_position ==
    /\ fn \in Precess
    /\ pc = "loop"
    /\ ~LoopDone(frame.i, args.ra)
    /\ IF SubscriptError(args.dec, frame.i) # NoErr
       THEN /\ out' = Raised(SubscriptError(args.dec, frame.i), "loop")
            /\ pc' = "done"
            /\ UNCHANGED <<frame, ext>>
       ELSE LET pos == Position(PairAt(args.ra, args.dec, frame.i), frame.epoch) IN
            /\ ext' = [ext EXCEPT !.positions = Append(@, pos)]
            /\ \E o \in LibOutcomes :
                IF o = "ok"
                THEN /\ frame' = [frame EXCEPT !.pos = pos]
                     /\ pc' = "convert"
                     /\ out' = out
                ELSE /\ out' = Raised(LibError, "loop")
                     /\ pc' = "done"
                     /\ frame' = frame
    /\ UNCHANGED <<fn, args>>

\* line 105 (148): ret.append(pos.j2000())  /  ret.append(pos.b1950())
precess_loop_convert ==
    /\ fn \in Precess
    /\ pc = "convert"
    /\ ext' = [ext EXCEPT !.convs = Append(@, Convert(fn, frame.pos))]
    /\ \E o \in LibOutcomes :
        IF o = "ok"
        THEN /\ frame' = [frame EXCEPT
                             !.ret = AppendRet(@, Convert(fn, frame.pos)),
                             !.i = @ + 1]
             /\ pc' = "loop"
             /\ out' = out
        ELSE /\ out' = Raised(LibError, "convert")
             /\ pc' = "done"
             /\ frame' = frame
    /\ UNCHANGED <<fn, args>>

\* lines 103, 109 (146, 152): the loop is over; return ret
precess_loop_return ==
    /\ fn \in Precess
    /\ pc = "loop"
    /\ LoopDone(frame.i, args.ra)
    /\ out' = Returned("list", NoVal, frame.ret)
    /\ pc' = "done"
    /\ UNCHANGED <<fn, args, frame, ext>>

\* line 107 (150): pos = coords.Position((ra, dec), equinox=epoch)
precess_scalar_position ==
    /\ fn \in Precess
    /\ pc = "scalar"
    /\ LET pos == Position(<<args.ra, args.dec>>, frame.epoch) IN
        /\ ext' = [ext EXCEPT !.positions = Append(@, pos)]
        /\ \E o \in LibOutcomes :
            IF o = "ok"
            THEN /\ frame' = [frame EXCEPT !.pos = pos]
                 /\ pc' = "scalar_convert"
                 /\ out' = out
            ELSE /\ out' = Raised(LibError, "scalar")
                 /\ pc' = "done"
                 /\ frame' = frame
    /\ UNCHANGED <<fn, args>>

\* lines 108-109 (151-152): ret = pos.j2000() / pos.b1950(); return ret
precess_scalar_convert ==
    /\ fn \in Precess
    /\ pc = "scalar_convert"
    /\ ext' = [ext EXCEPT !.convs = Append(@, Convert(fn, frame.pos))]
    /\ \E o \in LibOutcomes :
        IF o = "ok"
        THEN out' = Returned("single", NoVal, <<Convert(fn, frame.pos)>>)
        ELSE out' = Raised(LibError, "scalar_convert")
    /\ pc' = "done"
    /\ UNCHANGED <<fn, args, frame>>

(******************************* call end **********************************)

\* The call has returned or raised: its frame is gone and the module keeps
\* nothing of it (it has no module-level state), so the next call starts
\* from the initial state.
Return ==
    /\ pc = "done"
    /\ fn' = "none"
    /\ pc' = "idle"
    /\ args' = NoArgs
    /\ frame' = NoFrame
    /\ ext' = NoExt
    /\ out' = NoOut

(***************************** specification *******************************)

Next ==
    \/ Call_check_angle
    \/ check_angle
    \/ Call_azel2radec
    \/ azel_observer
    \/ azel_check_angle
    \/ azel_setloc
    \/ azel_date
    \/ azel_setdate
    \/ azel_radec_of
    \/ Call_precess
    \/ jprecess_epoch
    \/ bprecess_epoch
    \/ precess_mode
    \/ precess_loop_position
    \/ precess_loop_convert
    \/ precess_loop_return
    \/ precess_scalar_position
    \/ precess_scalar_convert
    \/ Return

Spec == Init /\ [][Next]_vars


(******************************* properties ********************************)

\* What the specification calls a sequence, an accepted angle form, an
\* ArgumentError, and the two families of epoch tokens.
SequenceTypes == { "list", "tuple", "numpy.ndarray" }

AcceptedForms == { "ephem.Angle", "str", "float" }

ArgumentErrors == { "SculptArgumentError", "IdealPyArgumentError" }

B1950Tokens == { "1950", "1950.0", "1950.", "B1950" }

J2000Tokens == { "2000", "2000.0", "2000.", "J2000" }

VectorCall == fn \in Precess /\ args.ra.t \in SequenceTypes

ValidationFailure == out.status = "raised" /\ out.err.site = "validation"

C1_Case ==
    /\ VectorCall
    /\ \/ args.dec.t \notin SequenceTypes
       \/ Len(args.dec.v) # Len(args.ra.v)

\* C1: in jprecess and bprecess, when RA is a sequence and Dec is a
\* sequence of another length or no sequence, the call ends with an
\* ArgumentError naming "dec", and no Position is built and no conversion
\* invoked in that call.
C1_DecMismatchRaises ==
    C1_Case =>
        /\ ext.positions = <<>>
        /\ ext.convs = <<>>
        /\ pc \in { "epoch", "mode", "done" }
        /\ pc = "done" =>
            /\ out.status = "raised"
            /\ out.err.cls \in ArgumentErrors
            /\ out.err.param = "dec"

C1_Witness == C1_Case /\ pc = "done" /\ out.status = "raised"

\* C2: _check_angle rejects every input that is not a typed angle, a
\* string or a float with an ArgumentError that names the parameter; for an
\* input of an accepted form it signals no ArgumentError and what it returns
\* is the canonical angle built from that input.
C2_CheckAngleContract ==
    (fn = "_check_angle" /\ pc = "done") =>
        IF args.angle.t \in AcceptedForms
        THEN /\ out.err.cls \notin ArgumentErrors
             /\ out.status = "returned" =>
                    out.value = [t |-> "ephem.degrees", v |-> args.angle]
        ELSE /\ out.status = "raised"
             /\ out.err.cls \in ArgumentErrors
             /\ out.err.param # ""

C3_Case ==
    /\ VectorCall
    /\ args.dec.t \in SequenceTypes
    /\ Len(args.dec.v) = Len(args.ra.v)

\* C3: in vector mode with RA and Dec of equal length n, the returned list
\* has exactly n entries and entry i is the conversion of (RA[i], Dec[i]) at
\* the epoch of the call: order kept, nothing skipped, duplicated or crossed.
C3_VectorOrder ==
    (C3_Case /\ out.status = "returned") =>
        /\ out.kind = "list"
        /\ Len(out.items) = Len(args.ra.v)
        /\ Len(ext.positions) = Len(args.ra.v)
        /\ Len(ext.convs) = Len(args.ra.v)
        /\ \A i \in 1..Len(args.ra.v) :
            /\ out.items[i] =
                 [t |-> IF fn = "jprecess" THEN "j2000" ELSE "b1950",
                  pos |-> [t |-> "coords.Position",
                           ra |-> Val("float", <<args.ra.v[i]>>),
                           dec |-> Val("float", <<args.dec.v[i]>>),
                           equinox |-> frame.epoch]]
            /\ ext.convs[i] = out.items[i]
            /\ ext.positions[i] = out.items[i].pos

C3_Witness ==
    /\ C3_Case
    /\ out.status = "returned"
    /\ Len(args.ra.v) >= 2
    /\ args.ra.v[1] # args.ra.v[2]
    /\ args.dec.v[1] # args.dec.v[2]
    /\ args.ra.t # args.dec.t

\* C4 as claimed: a vector-mode call that fails has converted no pair.
C4_NoConversionBeforeFailure ==
    (VectorCall /\ out.status = "raised") => ext.convs = <<>>

\* C4, amended: a vector-mode call ends in one of three ways: the full list
\* is returned; the check of dec fails before any Position is built or any
\* conversion invoked; or an error of the external library, raised while
\* a pair is built or converted, reaches the caller as it is, possibly after
\* earlier pairs were converted.  The caller never gets a partial list.
C4_VectorOutcomes ==
    (VectorCall /\ pc = "done") =>
        \/ /\ out.status = "returned"
           /\ out.kind = "list"
           /\ Len(out.items) = Len(args.ra.v)
           /\ Len(ext.convs) = Len(args.ra.v)
        \/ /\ ValidationFailure
           /\ out.err.cls \in ArgumentErrors
           /\ ext.positions = <<>>
           /\ ext.convs = <<>>
           /\ out.items = <<>>
        \/ /\ out.status = "raised"
           /\ out.err = Err("ValueError", "", "library")
           /\ out.items = <<>>
           /\ Len(frame.ret) < Len(args.ra.v)

C4_Witness ==
    /\ VectorCall
    /\ out.status = "raised"
    /\ out.err.site = "library"
    /\ Len(frame.ret) >= 1

\* C5: a call whose RA and Dec are both sequences fails before any
\* computation unless the two have the same container type and the same
\* length.
C5_SameContainerType ==
    ( /\ VectorCall
      /\ args.dec.t \in SequenceTypes
      /\ (args.dec.t # args.ra.t \/ Len(args.dec.v) # Len(args.ra.v)) ) =>
        /\ ext.positions = <<>>
        /\ ext.convs = <<>>
        /\ pc = "done" => out.status = "raised"

C6_Equinox ==
    IF args.epoch.t = "omitted"
    THEN Val("float", IF fn = "jprecess" THEN "1950.0" ELSE "2000.0")
    ELSE IF fn = "jprecess" /\ args.epoch.t = "str" /\ args.epoch.v \in B1950Tokens
    THEN Val("float", "1950.0")
    ELSE IF fn = "bprecess" /\ args.epoch.t = "str" /\ args.epoch.v \in J2000Tokens
    THEN Val("float", "2000.0")
    ELSE args.epoch

\* C6: jprecess passes the float 1950.0 as the equinox of every Position
\* when epoch is "1950", "1950.0", "1950." or "B1950" (or is left out), so
\* that the results are those of the call with 1950.0; bprecess likewise
\* with "2000", "2000.0", "2000.", "J2000" and 2000.0.  Any other epoch is
\* passed as it was given.
C6_EpochAliases ==
    (fn \in Precess /\ pc # "epoch") =>
        /\ frame.epoch = C6_Equinox
        /\ \A i \in 1..Len(ext.positions) : ext.positions[i].equinox = C6_Equinox
        /\ \A i \in 1..Len(ext.convs) : ext.convs[i].pos.equinox = C6_Equinox
        /\ \A i \in 1..Len(out.items) : out.items[i].pos.equinox = C6_Equinox

C6_Witness ==
    /\ fn = "jprecess"
    /\ args.epoch = Val("str", "1950.")
    /\ out.status = "returned"
    /\ Len(out.items) >= 1


C7_AngleOrder == <<"latitude", "longitude", "az", "el">>

C7_Before(stmt) == CHOOSE k \in 0..3 : C7_AngleOrder[k + 1] = stmt

C8_AllAccepted ==
    \A p \in { "latitude", "longitude", "az", "el" } : args[p].t \in AcceptedForms

C8_Normalized ==
    <<args.latitude, args.longitude, args.az, args.el>>

\* C8: in azel2radec, when latitude, longitude, azimuth or elevation is not
\* of an accepted form the call fails and radec_of is never invoked; radec_of
\* is invoked only after the four angles were normalized, in the order
\* latitude, longitude, azimuth, elevation.
C8_TransformLast ==
    fn = "azel2radec" =>
        /\ ~C8_AllAccepted =>
            /\ ext.radec_of = <<>>
            /\ pc # "radec_of"
            /\ pc = "done" => out.status = "raised"
        /\ Len(ext.degrees) <= 4
        /\ \A k \in 1..Len(ext.degrees) : ext.degrees[k] = C8_Normalized[k]
        /\ (pc = "radec_of" \/ ext.radec_of # <<>>) =>
            /\ ext.degrees = C8_Normalized
            /\ frame.latitude = [t |-> "ephem.degrees", v |-> args.latitude]
            /\ frame.longitude = [t |-> "ephem.degrees", v |-> args.longitude]
            /\ frame.az = [t |-> "ephem.degrees", v |-> args.az]
            /\ frame.el = [t |-> "ephem.degrees", v |-> args.el]
        /\ Len(ext.radec_of) <= 1

C8_Witness ==
    /\ fn = "azel2radec"
    /\ pc = "done"
    /\ out.status = "raised"
    /\ args.latitude.t \in AcceptedForms
    /\ args.longitude.t \in AcceptedForms
    /\ args.az.t \in AcceptedForms
    /\ args.el.t = "int"
    /\ out.at = "el"

C9_CallerDate == args.date.t \in { "datetime.datetime", "datetime.date" }

\* C9: the date azel2radec sets on the observer is the caller's date,
\* unchanged, when the caller passed a date or a date-time, and is the
\* system time read during the call in every other case (date left out,
\* None, a value of another type); nothing is raised because of date.
C9_ObservationTime ==
    fn = "azel2radec" =>
        /\ (pc \in { "radec_of", "done" } /\ out.status # "raised") =>
            /\ ext.date # NoVal
            /\ IF C9_CallerDate
               THEN ext.date = args.date /\ ext.now = <<>>
               ELSE /\ Len(ext.now) = 1
                    /\ ext.now[1] \in Clock
                    /\ ext.date = Val("datetime.datetime", ext.now[1])
        /\ out.status = "returned" => out.value.date = ext.date
        /\ out.status = "raised" =>
            /\ out.at \in { "latitude", "longitude", "az", "el" }
            /\ ext.date = NoVal

C9_Witness ==
    /\ fn = "azel2radec"
    /\ out.status = "returned"
    /\ args.date.t = "datetime.date"
    /\ ext.date = args.date

C10_Case == fn \in Precess /\ args.ra.t \notin SequenceTypes

\* C10: in jprecess and bprecess, when RA is not a list, tuple or array,
\* the call raises no ArgumentError whatever Dec is, builds one Position
\* from (RA, Dec, epoch), invokes the conversion once on it and returns
\* that one result, not a list.
C10_ScalarMode ==
    C10_Case =>
        /\ out.err.cls \notin ArgumentErrors
        /\ ~ValidationFailure
        /\ pc \notin { "loop", "convert" }
        /\ Len(ext.positions) <= 1
        /\ Len(ext.convs) <= 1
        /\ ext.positions # <<>> =>
            ext.positions[1] = [t |-> "coords.Position", ra |-> args.ra,
                                dec |-> args.dec, equinox |-> frame.epoch]
        /\ ext.convs # <<>> =>
            /\ ext.positions # <<>>
            /\ ext.convs[1] = [t |-> IF fn = "jprecess" THEN "j2000" ELSE "b1950",
                               pos |-> ext.positions[1]]
        /\ out.status = "returned" =>
            /\ out.kind = "single"
            /\ Len(ext.positions) = 1
            /\ Len(ext.convs) = 1
            /\ out.items = <<ext.convs[1]>>

C10_Witness ==
    /\ C10_Case
    /\ args.dec.t \in SequenceTypes
    /\ Len(args.dec.v) = 2
    /\ out.status = "returned"

====
